---- MODULE Spec2Model ----
(***************************************************************************)
(* domain-recon: Execute fetches the certificates of a domain from crt.sh, *)
(* getResolvableDomains extracts, trims and partitions the host names and  *)
(* extends the wildcard names with the words of a file, and printDomains   *)
(* resolves the concrete batch and then the extended batch, one lookUpDns  *)
(* goroutine per host name, printing a line per resolved name.             *)
(*                                                                         *)
(* A string is a sequence of one-character strings.                        *)
(***************************************************************************)
EXTENDS Integers, Sequences, FiniteSets, TLC

VARIABLES
    pc,               \* position of main/Execute
    fetchPc,          \* position of the fetchResource goroutine
    fetchSends,       \* channel sends fetchResource has reached
    body,             \* the response body io.ReadAll returned
    selected,         \* the case Execute's select took
    err,              \* Execute's return value is a non-nil error
    flags,            \* internal.Flags: PlainOutput, WordsFile
    fs,               \* the file WordsFile names: readable, content
    certificates,     \* the decoded []Certificate
    keys,             \* maps.Keys(uniqDomains), in the order it returned them
    wildCardDomains,  \* getResolvableDomains: the wildcard partition
    domains,          \* getResolvableDomains: first return value
    extendedDomains,  \* getResolvableDomains: second return value
    fileReads,        \* calls of ioutil.ReadFile made by extendWildcardDomains
    batch,            \* 0: printDomains not entered, 1: concrete, 2: extended
    looked,           \* per batch, per task: "running", "ok", "fail"
    todo,             \* per batch, per task: the sends the task still has to do
    sent,             \* per batch, per task: the channels the task has sent on
    ch,               \* per batch: the buffered result channel
    errCh,            \* per batch: the buffered failure channel
    consumed,         \* per batch: the outcomes the select loop has received
    output            \* the lines written to standard output

vars == <<pc, fetchPc, fetchSends, body, selected, err, flags, fs, certificates,
          keys, wildCardDomains, domains, extendedDomains, fileReads, batch,
          looked, todo, sent, ch, errCh, consumed, output>>

-----------------------------------------------------------------------------
(* Bounds and input sets *)

MaxCerts == 2

Range(s) == {s[i] : i \in 1..Len(s)}

SeqsUpTo(S, n) == UNION {[1..k -> S] : k \in 0..n}

\* Raw field values: an empty common name, a concrete name, a name with two
\* stars; name values of one or two lines, with surrounding whitespace.
CommonNames == { <<>>, <<"a">>, <<"*", "*">> }

NameValues == { <<"a">>,
                <<" ", "a", "\n", "*", "*">>,
                <<"*", "\n", "a">> }

Certs == [CommonName : CommonNames, NameValue : NameValues]

CertLists == SeqsUpTo(Certs, MaxCerts)

\* Word-list files: one word, a trailing newline, a repeated word, padded words.
WordFiles == { <<"a">>,
               <<"a", "\n">>,
               <<"a", "\n", "a">>,
               <<" ", "a", "\n", "a", "a">>,
               <<>> }

NoPath == <<>>
WordsPath == <<"w">>

\* (flags.WordsFile, file) pairs: no path; a path that cannot be read; a path
\* to a readable file.
FileChoices ==
    { [path |-> NoPath, file |-> [readable |-> FALSE, content |-> <<>>]],
      [path |-> WordsPath, file |-> [readable |-> FALSE, content |-> <<>>]] }
    \cup { [path |-> WordsPath, file |-> [readable |-> TRUE, content |-> c]] :
           c \in WordFiles }

\* Response bodies of the full run: a body that is no JSON array of
\* certificates, and three certificate arrays.
Garbage == [json |-> FALSE, certs |-> <<>>]

SampleBodies ==
    { [json |-> TRUE, certs |-> <<>>],
      [json |-> TRUE, certs |-> << [CommonName |-> <<"a">>,
                                    NameValue |-> <<" ", "a", "\n", "*", "a">>] >>],
      [json |-> TRUE, certs |-> << [CommonName |-> <<"*", "a">>,
                                    NameValue |-> <<"*", "\n", "a", "a">>] >>] }

SampleFiles ==
    { f \in FileChoices :
        f.file.content \in { <<>>, <<"a", "\n">>, <<"a", "\n", "a">> } }

-----------------------------------------------------------------------------
(* strings *)

IsSpace(c) == c \in {" ", "\n"}

RECURSIVE TrimLeft(_)
TrimLeft(s) ==
    IF s # <<>> /\ IsSpace(Head(s)) THEN TrimLeft(Tail(s)) ELSE s

RECURSIVE TrimRight(_)
TrimRight(s) ==
    IF s # <<>> /\ IsSpace(s[Len(s)]) THEN TrimRight(SubSeq(s, 1, Len(s) - 1)) ELSE s

\* strings.TrimSpace
TrimSpace(s) == TrimRight(TrimLeft(s))

RECURSIVE SplitFrom(_, _)
SplitFrom(s, cur) ==
    IF s = <<>> THEN <<cur>>
    ELSE IF Head(s) = "\n" THEN <<cur>> \o SplitFrom(Tail(s), <<>>)
    ELSE SplitFrom(Tail(s), Append(cur, Head(s)))

\* strings.Split(s, "\n"): the empty string splits into one empty string
Split(s) == SplitFrom(s, <<>>)

\* strings.HasPrefix(domain, "*")
HasPrefix(s) == s # <<>> /\ Head(s) = "*"

RECURSIVE Replace(_, _)
\* strings.Replace(domain, "*", word, 1)
Replace(s, word) ==
    IF s = <<>> THEN <<>>
    ELSE IF Head(s) = "*" THEN word \o Tail(s)
    ELSE <<Head(s)>> \o Replace(Tail(s), word)

-----------------------------------------------------------------------------
(* getResolvableDomains and its helpers *)

\* the keys of the map uniqDomains after the loop over the certificates
uniqDomains(certs) ==
    UNION { {certs[i].CommonName} \cup Range(Split(certs[i].NameValue)) :
            i \in 1..Len(certs) }

RECURSIVE Perms(_)
\* maps.Keys returns the keys in an indeterminate order: every order
Perms(S) ==
    IF S = {} THEN { <<>> }
    ELSE UNION { { <<x>> \o p : p \in Perms(S \ {x}) } : x \in S }

cleanDomainNames(ds) == [i \in 1..Len(ds) |-> TrimSpace(ds[i])]

partitionDomains(ds) ==
    [wildCards |-> SelectSeq(ds, LAMBDA d : HasPrefix(d)),
     nonWildCards |-> SelectSeq(ds, LAMBDA d : ~HasPrefix(d))]

\* the words of the file: its lines, each trimmed
Words(content) == LET lines == Split(content)
                  IN  [i \in 1..Len(lines) |-> TrimSpace(lines[i])]

RECURSIVE ExtendEach(_, _)
ExtendEach(ds, words) ==
    IF ds = <<>> THEN <<>>
    ELSE [w \in 1..Len(words) |-> Replace(Head(ds), words[w])]
         \o ExtendEach(Tail(ds), words)

extendWildcardDomainsUnchecked(ds, file) ==
    [err |-> FALSE, potentialDomains |-> ExtendEach(ds, Words(file.content))]

\* extendWildcardDomains: (nil, err) when ReadFile fails
extendWildcardDomains(ds, file) ==
    IF ~file.readable
    THEN [err |-> TRUE, potentialDomains |-> <<>>]
    ELSE [err |-> FALSE, potentialDomains |-> ExtendEach(ds, Words(file.content))]

RECURSIVE Dedup(_)
Dedup(s) ==
    IF s = <<>> THEN <<>>
    ELSE LET r == Dedup(SubSeq(s, 1, Len(s) - 1))
         IN  IF s[Len(s)] \in Range(r) THEN r ELSE Append(r, s[Len(s)])

computeDifferenceUniq(ds, potentialDomains) ==
    Dedup(SelectSeq(potentialDomains, LAMBDA d : d \notin Range(ds)))

\* computeDifference: the potential domains that are no key of nonWild
computeDifference(ds, potentialDomains) ==
    SelectSeq(potentialDomains, LAMBDA d : d \notin Range(ds))

ShouldExtendIfWildcards(f, wild) == Len(f.WordsFile) > 0 /\ wild # <<>>

\* if len(flags.WordsFile) > 0
ShouldExtend(f, wild) == Len(f.WordsFile) > 0

\* getResolvableDomains on the key order ks
getResolvableDomains(ks, f, file) ==
    LET parts == partitionDomains(cleanDomainNames(ks))
        ext   == extendWildcardDomains(parts.wildCards, file)
    IN  [wildCardDomains |-> parts.wildCards,
         domains         |-> parts.nonWildCards,
         fileReads       |-> IF ShouldExtend(f, parts.wildCards) THEN 1 ELSE 0,
         uniqPotentialDomains |->
             IF ShouldExtend(f, parts.wildCards) /\ ~ext.err
             THEN computeDifference(parts.nonWildCards, ext.potentialDomains)
             ELSE <<>>]

-----------------------------------------------------------------------------
(* printDomains, printReachableDomains, lookUpDns, main *)

Batches == 1..2

BatchList(b) == IF b = 1 THEN domains ELSE extendedDomains

\* make(chan ..., len(domain))
ChanCap(list) == Len(list)

LoopCountShort(list) == IF Len(list) > 0 THEN Len(list) - 1 ELSE 0

\* for range domain
LoopCount(list) == Len(list)

lookUpDnsNoReturn(ok) == IF ok THEN <<"ch">> ELSE <<"errCh", "ch">>

lookUpDnsSilent(ok) == IF ok THEN <<"ch">> ELSE <<>>

\* lookUpDns after net.LookupIP returned: the sends it performs
lookUpDns(ok) == IF ok THEN <<"ch">> ELSE <<"errCh">>

PrintsHeaderAlways(ext, plain) == Len(ext) > 0

\* printDomains: if len(extendedDomains) > 0 { if !plain { header } }
PrintsHeader(ext, plain) == Len(ext) > 0 /\ ~plain

MainOutcomeSwallow(e) == "exited"

\* main: panic(err) when Execute returns an error
MainOutcome(e) == IF e THEN "panicked" ELSE "exited"

\* json.Unmarshal(resp, &certificates) returns an error
DecodeFails(b) == ~b.json

HostLine(d, b, i) ==
    [kind |-> "host", domain |-> d, ips |-> ~flags.PlainOutput, batch |-> b, task |-> i]
RawLine == [kind |-> "raw", domain |-> <<>>, ips |-> FALSE, batch |-> 0, task |-> 0]
HeaderLine == [kind |-> "header", domain |-> <<>>, ips |-> FALSE, batch |-> 0, task |-> 0]

Running == pc \notin {"exited", "panicked"}

NoTasks == [b \in Batches |-> <<>>]

Init ==
    /\ pc = "select"
    /\ fetchPc = "do"
    /\ fetchSends = 0
    /\ body = Garbage
    /\ selected = "none"
    /\ err = FALSE
    /\ \E f \in SampleFiles, p \in BOOLEAN :
          /\ flags = [PlainOutput |-> p, WordsFile |-> f.path]
          /\ fs = f.file
    /\ certificates = <<>>
    /\ keys = <<>>
    /\ wildCardDomains = <<>>
    /\ domains = <<>>
    /\ extendedDomains = <<>>
    /\ fileReads = 0
    /\ batch = 0
    /\ looked = NoTasks
    /\ todo = NoTasks
    /\ sent = NoTasks
    /\ ch = NoTasks
    /\ errCh = NoTasks
    /\ consumed = NoTasks
    /\ output = <<>>

domainVars == <<certificates, keys, wildCardDomains, domains, extendedDomains, fileReads>>
taskVars == <<batch, looked, todo, sent, ch, errCh, consumed>>

\* fetchResource: client.Do(q)
FetchDo ==
    /\ Running /\ fetchPc = "do"
    /\ \E ok \in BOOLEAN :
          /\ fetchPc' = IF ok THEN "read" ELSE "sendErr"
          /\ fetchSends' = IF ok THEN fetchSends ELSE fetchSends + 1
    /\ UNCHANGED <<pc, body, selected, err, flags, fs, output>>
    /\ UNCHANGED domainVars /\ UNCHANGED taskVars

\* fetchResource: io.ReadAll(resp.Body)
FetchReadAll ==
    /\ Running /\ fetchPc = "read"
    /\ \/ \E b \in SampleBodies \cup {Garbage} :
             /\ body' = b
             /\ fetchPc' = "sendBody"
       \/ /\ fetchPc' = "sendErr"
          /\ UNCHANGED body
    /\ fetchSends' = fetchSends + 1
    /\ UNCHANGED <<pc, selected, err, flags, fs, output>>
    /\ UNCHANGED domainVars /\ UNCHANGED taskVars

\* fetchResource: resp.Body.Close(), after ch <- body was received
FetchClose ==
    /\ Running /\ fetchPc = "close"
    /\ \E ok \in BOOLEAN :
          /\ fetchPc' = IF ok THEN "done" ELSE "sendErr"
          /\ fetchSends' = IF ok THEN fetchSends ELSE fetchSends + 1
    /\ UNCHANGED <<pc, body, selected, err, flags, fs, output>>
    /\ UNCHANGED domainVars /\ UNCHANGED taskVars

\* Execute: case resp := <-ch, then json.Unmarshal
ExecRecvBody ==
    /\ pc = "select" /\ fetchPc = "sendBody"
    /\ fetchPc' = "close"
    /\ selected' = "ch"
    /\ IF DecodeFails(body)
       THEN /\ output' = Append(output, RawLine)
            /\ err' = TRUE
            /\ pc' = "returned"
            /\ UNCHANGED certificates
       ELSE /\ certificates' = body.certs
            /\ pc' = "getDomains"
            /\ UNCHANGED <<output, err>>
    /\ UNCHANGED <<fetchSends, body, flags, fs, keys, wildCardDomains, domains,
                   extendedDomains, fileReads>>
    /\ UNCHANGED taskVars

\* Execute: case e := <-errCh
ExecRecvErr ==
    /\ pc = "select" /\ fetchPc = "sendErr"
    /\ fetchPc' = "done"
    /\ selected' = "errCh"
    /\ err' = TRUE
    /\ pc' = "returned"
    /\ UNCHANGED <<fetchSends, body, flags, fs, output>>
    /\ UNCHANGED domainVars /\ UNCHANGED taskVars

\* Execute: domains, extendedDomains := getResolvableDomains(certificates, flags)
GetResolvableDomains ==
    /\ pc = "getDomains"
    /\ \E ks \in Perms(uniqDomains(certificates)) :
          LET r == getResolvableDomains(ks, flags, fs)
          IN  /\ keys' = ks
              /\ wildCardDomains' = r.wildCardDomains
              /\ domains' = r.domains
              /\ extendedDomains' = r.uniqPotentialDomains
              /\ fileReads' = fileReads + r.fileReads
    /\ pc' = "printDomains"
    /\ UNCHANGED <<fetchPc, fetchSends, body, selected, err, flags, fs, certificates,
                   output>>
    /\ UNCHANGED taskVars

\* the state of batch b once printReachableDomains has made its channels and
\* started one lookUpDns goroutine per element of list
Launch(b, list) ==
    /\ batch' = b
    /\ looked' = [looked EXCEPT ![b] = [i \in 1..Len(list) |-> "running"]]
    /\ todo' = [todo EXCEPT ![b] = [i \in 1..Len(list) |-> <<>>]]
    /\ sent' = [sent EXCEPT ![b] = [i \in 1..Len(list) |-> <<>>]]
    /\ UNCHANGED <<ch, errCh, consumed>>

\* printDomains: printReachableDomains(domains, plain), up to its first select
PrintDomains ==
    /\ pc = "printDomains"
    /\ Launch(1, domains)
    /\ pc' = "loop"
    /\ UNCHANGED <<fetchPc, fetchSends, body, selected, err, flags, fs, output>>
    /\ UNCHANGED domainVars

\* lookUpDns: net.LookupIP(domain) returns
LookupReturns(b, i) ==
    /\ Running /\ b \in 1..batch /\ i \in 1..Len(looked[b])
    /\ looked[b][i] = "running"
    /\ \E ok \in BOOLEAN :
          /\ looked' = [looked EXCEPT ![b][i] = IF ok THEN "ok" ELSE "fail"]
          /\ todo' = [todo EXCEPT ![b][i] = lookUpDns(ok)]
    /\ UNCHANGED <<pc, fetchPc, fetchSends, body, selected, err, flags, fs, output,
                   batch, sent, ch, errCh, consumed>>
    /\ UNCHANGED domainVars

\* lookUpDns: ch <- DNSLookupResult{...} or errCh <- domain, when the buffer has room
TaskSend(b, i) ==
    /\ Running /\ b \in 1..batch /\ i \in 1..Len(todo[b])
    /\ todo[b][i] # <<>>
    /\ LET c   == Head(todo[b][i])
           msg == [task |-> i, domain |-> BatchList(b)[i]]
       IN  /\ IF c = "ch"
              THEN /\ Len(ch[b]) < ChanCap(BatchList(b))
                   /\ ch' = [ch EXCEPT ![b] = Append(@, msg)]
                   /\ UNCHANGED errCh
              ELSE /\ Len(errCh[b]) < ChanCap(BatchList(b))
                   /\ errCh' = [errCh EXCEPT ![b] = Append(@, msg)]
                   /\ UNCHANGED ch
           /\ sent' = [sent EXCEPT ![b][i] = Append(@, c)]
    /\ todo' = [todo EXCEPT ![b][i] = Tail(@)]
    /\ UNCHANGED <<pc, fetchPc, fetchSends, body, selected, err, flags, fs, output,
                   batch, looked, consumed>>
    /\ UNCHANGED domainVars

\* printReachableDomains: case resp := <-ch, and the line it prints
SelectRecvResult ==
    /\ pc = "loop"
    /\ Len(consumed[batch]) < LoopCount(BatchList(batch))
    /\ ch[batch] # <<>>
    /\ LET m == Head(ch[batch])
       IN  /\ output' = Append(output, HostLine(m.domain, batch, m.task))
           /\ consumed' = [consumed EXCEPT ![batch] =
                              Append(@, [task |-> m.task, via |-> "ch"])]
    /\ ch' = [ch EXCEPT ![batch] = Tail(@)]
    /\ UNCHANGED <<pc, fetchPc, fetchSends, body, selected, err, flags, fs,
                   batch, looked, todo, sent, errCh>>
    /\ UNCHANGED domainVars

\* printReachableDomains: case e := <-errCh
SelectRecvFailure ==
    /\ pc = "loop"
    /\ Len(consumed[batch]) < LoopCount(BatchList(batch))
    /\ errCh[batch] # <<>>
    /\ consumed' = [consumed EXCEPT ![batch] =
                       Append(@, [task |-> Head(errCh[batch]).task, via |-> "errCh"])]
    /\ errCh' = [errCh EXCEPT ![batch] = Tail(@)]
    /\ UNCHANGED <<pc, fetchPc, fetchSends, body, selected, err, flags, fs, output,
                   batch, looked, todo, sent, ch>>
    /\ UNCHANGED domainVars

\* printReachableDomains returns to printDomains: after the concrete batch the
\* header and the extended batch follow, after the last batch Execute returns nil
BatchReturn ==
    /\ pc = "loop"
    /\ Len(consumed[batch]) = LoopCount(BatchList(batch))
    /\ IF batch = 1 /\ Len(extendedDomains) > 0
       THEN /\ output' = IF PrintsHeader(extendedDomains, flags.PlainOutput)
                         THEN Append(output, HeaderLine) ELSE output
            /\ Launch(2, extendedDomains)
            /\ UNCHANGED pc
       ELSE /\ pc' = "returned"
            /\ UNCHANGED output
            /\ UNCHANGED taskVars
    /\ UNCHANGED <<fetchPc, fetchSends, body, selected, err, flags, fs>>
    /\ UNCHANGED domainVars

\* main: Execute returned; panic(err) or return
MainReturn ==
    /\ pc = "returned"
    /\ pc' = MainOutcome(err)
    /\ UNCHANGED <<fetchPc, fetchSends, body, selected, err, flags, fs, output>>
    /\ UNCHANGED domainVars /\ UNCHANGED taskVars

Next ==
    \/ FetchDo
    \/ FetchReadAll
    \/ FetchClose
    \/ ExecRecvBody
    \/ ExecRecvErr
    \/ GetResolvableDomains
    \/ PrintDomains
    \/ \E b \in Batches : \E i \in 1..Len(looked[b]) : LookupReturns(b, i)
    \/ \E b \in Batches : \E i \in 1..Len(todo[b]) : TaskSend(b, i)
    \/ SelectRecvResult
    \/ SelectRecvFailure
    \/ BatchReturn
    \/ MainReturn

Spec == Init /\ [][Next]_vars

\* goroutines are scheduled fairly and every net.LookupIP returns
Fairness ==
    /\ WF_vars(\E b \in Batches : \E i \in 1..Len(looked[b]) : LookupReturns(b, i))
    /\ WF_vars(\E b \in Batches : \E i \in 1..Len(todo[b]) : TaskSend(b, i))
    /\ WF_vars(SelectRecvResult \/ SelectRecvFailure)
    /\ WF_vars(BatchReturn)

FairSpec == Spec /\ Fairness

\* getResolvableDomains applied to every certificate list and word-list file
DomainInit ==
    /\ pc = "getDomains"
    /\ fetchPc = "close"
    /\ fetchSends = 1
    /\ selected = "ch"
    /\ err = FALSE
    /\ \E cl \in CertLists :
          /\ body = [json |-> TRUE, certs |-> cl]
          /\ certificates = cl
    /\ \E f \in FileChoices :
          /\ flags = [PlainOutput |-> FALSE, WordsFile |-> f.path]
          /\ fs = f.file
    /\ keys = <<>>
    /\ wildCardDomains = <<>>
    /\ domains = <<>>
    /\ extendedDomains = <<>>
    /\ fileReads = 0
    /\ batch = 0
    /\ looked = NoTasks
    /\ todo = NoTasks
    /\ sent = NoTasks
    /\ ch = NoTasks
    /\ errCh = NoTasks
    /\ consumed = NoTasks
    /\ output = <<>>

DomainNext == GetResolvableDomains

DomainSpec == DomainInit /\ [][DomainNext]_vars

-----------------------------------------------------------------------------
(* Properties *)

Tasks(b) == 1..Len(looked[b])

Returned == pc \in {"returned", "exited", "panicked"}

\* the select loop of batch b has ended
LoopEnded(b) == batch > b \/ (batch = b /\ Returned)

\* the positions of the lines printed for task i of batch b
LinesOf(b, i) ==
    { k \in 1..Len(output) :
        output[k].kind = "host" /\ output[k].batch = b /\ output[k].task = i }

BatchLines(b) ==
    { k \in 1..Len(output) : output[k].kind = "host" /\ output[k].batch = b }

HeaderIdx == { k \in 1..Len(output) : output[k].kind = "header" }

Pending(b) == { ch[b][k].task : k \in 1..Len(ch[b]) }
                  \cup { errCh[b][k].task : k \in 1..Len(errCh[b]) }

\* C1: in every batch each task deposits at most one outcome, on one channel
\* only; every deposited outcome is either still in its channel or was consumed
\* once, by the loop, from the channel it was sent on; and when the loop has
\* ended it has consumed N outcomes, one of each of the N tasks, and both
\* channels are empty.
C1_OneOutcomePerTask ==
    \A b \in Batches :
        /\ \A i \in Tasks(b) : Len(sent[b][i]) <= 1
        /\ \A j, k \in 1..Len(consumed[b]) :
              j # k => consumed[b][j].task # consumed[b][k].task
        /\ \A j \in 1..Len(consumed[b]) :
              /\ consumed[b][j].task \in Tasks(b)
              /\ sent[b][consumed[b][j].task] = << consumed[b][j].via >>
        /\ Len(ch[b]) + Len(errCh[b]) + Len(consumed[b])
              = Cardinality({ i \in Tasks(b) : sent[b][i] # <<>> })
        /\ Pending(b) \cap { consumed[b][j].task : j \in 1..Len(consumed[b]) } = {}
        /\ LoopEnded(b) =>
              /\ Len(consumed[b]) = Len(BatchList(b))
              /\ { consumed[b][j].task : j \in 1..Len(consumed[b]) } = 1..Len(BatchList(b))
              /\ ch[b] = <<>>
              /\ errCh[b] = <<>>
              /\ \A i \in Tasks(b) : Len(sent[b][i]) = 1

C1_Witness ==
    \E b \in Batches :
        /\ LoopEnded(b)
        /\ Len(consumed[b]) >= 2
        /\ \E j, k \in 1..Len(consumed[b]) :
              consumed[b][j].via = "ch" /\ consumed[b][k].via = "errCh"

\* C3: no task of the extended batch is launched and no extended line is
\* printed before the loop of the concrete batch has consumed the outcome of
\* every concrete task and printed the line of every resolved concrete name;
\* every concrete line precedes every extended line.
C3_BatchesDoNotOverlap ==
    /\ (batch = 2 \/ looked[2] # <<>> \/ BatchLines(2) # {}) =>
          /\ Len(consumed[1]) = Len(domains)
          /\ \A i \in 1..Len(domains) :
                /\ looked[1][i] # "running"
                /\ todo[1][i] = <<>>
                /\ \E j \in 1..Len(consumed[1]) : consumed[1][j].task = i
                /\ looked[1][i] = "ok" => LinesOf(1, i) # {}
          /\ ch[1] = <<>> /\ errCh[1] = <<>>
    /\ \A j \in BatchLines(1), k \in BatchLines(2) : j < k

C3_Witness ==
    /\ batch = 2
    /\ Len(domains) >= 2
    /\ BatchLines(1) # {}
    /\ BatchLines(2) # {}

\* C4: (safety) when printReachableDomains has returned it has printed exactly
\* one line for each task whose lookup succeeded and none for a task whose
\* lookup failed; (liveness, under fair scheduling) the loop of every batch
\* eventually ends.
C4_BatchTerminatesWithResolvedLines ==
    /\ [](\A b \in Batches :
            LoopEnded(b) =>
               \A i \in Tasks(b) :
                  Cardinality(LinesOf(b, i)) = IF looked[b][i] = "ok" THEN 1 ELSE 0)
    /\ \A b \in Batches : (batch = b /\ pc = "loop") ~> LoopEnded(b)

C4_Witness ==
    \E b \in Batches :
        /\ LoopEnded(b)
        /\ \E i, j \in Tasks(b) :
              /\ looked[b][i] = "fail" /\ LinesOf(b, i) = {}
              /\ looked[b][j] = "ok" /\ LinesOf(b, j) # {}
              /\ \E m, n \in 1..Len(consumed[b]) :
                    m < n /\ consumed[b][m].task = i /\ consumed[b][n].task = j

FetchOrDecodeFailed ==
    selected = "errCh" \/ (selected = "ch" /\ DecodeFails(body))

\* C5: when the fetch fails or the body does not decode, Execute returns an
\* error, no lookup task is launched, nothing is printed but the raw body (on a
\* decode failure), and main panics.
C5_FetchOrDecodeFailureIsFatal ==
    FetchOrDecodeFailed =>
        /\ err
        /\ pc \in {"returned", "panicked"}
        /\ batch = 0 /\ looked = NoTasks
        /\ output = IF selected = "ch" THEN <<RawLine>> ELSE <<>>

C5_Witness ==
    /\ pc = "panicked"
    /\ selected = "ch" /\ DecodeFails(body)
    /\ output = <<RawLine>>

WordListUnreadable == Len(flags.WordsFile) > 0 /\ ~fs.readable

\* C7: with a word-list path that cannot be read, getResolvableDomains returns
\* no extended domain and the concrete list it returns without a word list; no
\* header and no extended line is printed, and the run ends normally after the
\* concrete batch was resolved and printed.
C7_UnreadableWordListSkipsExpansion ==
    WordListUnreadable =>
        /\ (selected = "ch" /\ ~DecodeFails(body) /\ pc # "getDomains") =>
              /\ extendedDomains = <<>>
              /\ domains = getResolvableDomains(
                               keys, [flags EXCEPT !.WordsFile = NoPath], fs).domains
        /\ batch # 2 /\ looked[2] = <<>>
        /\ HeaderIdx = {} /\ BatchLines(2) = {}
        /\ (selected = "ch" /\ ~DecodeFails(body) /\ Returned) =>
              /\ ~err /\ pc # "panicked"
              /\ batch = 1
              /\ Len(consumed[1]) = Len(domains)
              /\ \A i \in 1..Len(domains) :
                    Cardinality(LinesOf(1, i)) = IF looked[1][i] = "ok" THEN 1 ELSE 0

C7_Witness ==
    /\ WordListUnreadable
    /\ pc = "exited"
    /\ wildCardDomains # <<>>
    /\ BatchLines(1) # {}

PastHeaderTest == batch = 2 \/ (batch = 1 /\ Returned)

\* C8: the header is printed at most once, only when the extended list is
\* non-empty and plain mode is off, and in that case always, once printDomains
\* has passed its test; every concrete line precedes it and every extended
\* line follows it.
C8_HeaderOnceBetweenBatches ==
    /\ Cardinality(HeaderIdx) <= 1
    /\ HeaderIdx # {} => (Len(extendedDomains) > 0 /\ ~flags.PlainOutput)
    /\ PastHeaderTest =>
          (HeaderIdx # {} <=> (Len(extendedDomains) > 0 /\ ~flags.PlainOutput))
    /\ \A h \in HeaderIdx :
          /\ \A k \in BatchLines(1) : k < h
          /\ \A k \in BatchLines(2) : h < k
          /\ \A i \in 1..Len(domains) : looked[1][i] = "ok" => LinesOf(1, i) # {}

C8_Witness ==
    /\ pc = "exited"
    /\ HeaderIdx # {}
    /\ BatchLines(1) # {}
    /\ BatchLines(2) # {}
    /\ \E i \in Tasks(2) : looked[2][i] = "fail"

\* C10: fetchResource reaches at most one channel send, and once Execute's
\* select has taken an outcome it is not blocked on a send.
C10_FetchSendsAtMostOnce ==
    /\ fetchSends <= 1
    /\ selected # "none" => fetchPc # "sendErr"

Extracted == pc = "printDomains"

NoDuplicates(s) == \A j, k \in 1..Len(s) : j # k => s[j] # s[k]

\* C2: the wildcard list followed by the concrete list holds every trimmed
\* value of every common_name and every name_value line, and no string twice.
C2_HostnamesDeduplicated ==
    Extracted =>
        LET all == wildCardDomains \o domains
        IN  /\ Range(all) = { TrimSpace(v) : v \in uniqDomains(certificates) }
            /\ NoDuplicates(all)

\* the string s with its first "*" replaced by w
FirstStarReplaced(s, w) ==
    LET stars == { k \in 1..Len(s) : s[k] = "*" }
    IN  IF stars = {} THEN s
        ELSE LET m == CHOOSE k \in stars : \A n \in stars : k <= n
             IN  SubSeq(s, 1, m - 1) \o w \o SubSeq(s, m + 1, Len(s))

\* one raw candidate per (wildcard, word) pair, wildcard by wildcard
RawCandidates ==
    LET words == Words(fs.content)
        W == Len(words)
    IN  [k \in 1..(Len(wildCardDomains) * W) |->
            FirstStarReplaced(wildCardDomains[((k - 1) \div W) + 1],
                              words[((k - 1) % W) + 1])]

\* C6: with a readable word list, the extended list is the sequence of raw
\* candidates without those that equal a concrete name: order and repetitions
\* are kept, and no concrete name is in it.
C6_ExtendedIsFilteredCandidates ==
    (Extracted /\ Len(flags.WordsFile) > 0 /\ fs.readable) =>
        LET raw  == RawCandidates
            kept == { k \in 1..Len(raw) : raw[k] \notin Range(domains) }
        IN  /\ Len(extendedDomains) = Cardinality(kept)
            /\ \A j \in 1..Len(extendedDomains) :
                  extendedDomains[j] =
                     raw[CHOOSE k \in kept : Cardinality({ m \in kept : m <= k }) = j]
            /\ Range(extendedDomains) \cap Range(domains) = {}

C6_Witness ==
    /\ Extracted /\ Len(flags.WordsFile) > 0 /\ fs.readable
    /\ \E k \in 1..Len(RawCandidates) : RawCandidates[k] \in Range(domains)
    /\ ~NoDuplicates(extendedDomains)

\* C9 as stated: with zero certificate records both lists and the extended
\* list are empty and the word-list file is not read.
C9_NoExpansionAttempted ==
    (Extracted /\ certificates = <<>>) =>
        /\ wildCardDomains = <<>> /\ domains = <<>> /\ extendedDomains = <<>>
        /\ fileReads = 0

\* C9 amended: with zero certificate records both lists and the extended list
\* are empty; extendWildcardDomains is called, and reads the file, exactly when
\* a word-list path is supplied.
C9_ZeroRecordsYieldEmptyLists ==
    (Extracted /\ certificates = <<>>) =>
        /\ wildCardDomains = <<>> /\ domains = <<>> /\ extendedDomains = <<>>
        /\ fileReads = IF Len(flags.WordsFile) > 0 THEN 1 ELSE 0

C9_Witness ==
    /\ Extracted /\ certificates = <<>>
    /\ Len(flags.WordsFile) > 0 /\ fs.readable /\ fs.content # <<>>
    /\ fileReads = 1
    /\ extendedDomains = <<>>

====
